---- MODULE Spec2Model ----
(***************************************************************************)
(* Model of the command registry and command recognizer of radosgw-admin   *)
(* (src/main.cpp): class Command, split, CommandsParser::register_command, *)
(* CommandsParser::sort_ and CommandsParser::recognize_command.            *)
(*                                                                         *)
(* A std::string is a sequence of character codes, a token list a sequence *)
(* of strings.  A Command is modelled by its text_; help_, id_ and         *)
(* callback_ are never read by registration, sorting or recognition.  A    *)
(* pointer into commands_ is the 1-based position of the element, nullptr  *)
(* is 0.                                                                   *)
(***************************************************************************)
EXTENDS Naturals, Sequences, FiniteSets, Bags

\* ---------------------------------------------------------------- bounds
MaxCmds == 3
MaxTextLen == 3
MaxTokens == 3
MaxWordLen == 1

\* ------------------------------------------------------------ input sets
\* ' ' = 32, 'a' = 97, 'b' = 98
Letters == {97, 98}
Chars == {32} \cup Letters

SeqsUpTo(S, n) == UNION {[1..k -> S] : k \in 0..n}

Texts == SeqsUpTo(Chars, MaxTextLen)
Words == SeqsUpTo(Letters, MaxWordLen) \ {<<>>}
TokenSeqs == SeqsUpTo(Words, MaxTokens)

\* ------------------------------------------------------- pure functions
nullptr == 0

\* split: operator>> skips whitespace, then reads up to the next whitespace
RECURSIVE split_from(_, _, _)
split_from(s, i, tmp) ==
    IF i > Len(s)
    THEN IF tmp = <<>> THEN <<>> ELSE <<tmp>>
    ELSE IF s[i] = 32
         THEN IF tmp = <<>>
              THEN split_from(s, i + 1, <<>>)
              ELSE <<tmp>> \o split_from(s, i + 1, <<>>)
         ELSE split_from(s, i + 1, Append(tmp, s[i]))

split(s) == split_from(s, 1, <<>>)

\* std::string operator< : lexicographic on characters
RECURSIVE StrLess(_, _)
StrLess(s, t) ==
    IF t = <<>> THEN FALSE
    ELSE IF s = <<>> THEN TRUE
    ELSE IF s[1] < t[1] THEN TRUE
    ELSE IF t[1] < s[1] THEN FALSE
    ELSE StrLess(Tail(s), Tail(t))

\* std::vector<std::string> operator< : lexicographic on strings
RECURSIVE VecLess(_, _)
VecLess(u, v) ==
    IF v = <<>> THEN FALSE
    ELSE IF u = <<>> THEN TRUE
    ELSE IF StrLess(u[1], v[1]) THEN TRUE
    ELSE IF StrLess(v[1], u[1]) THEN FALSE
    ELSE VecLess(Tail(u), Tail(v))

\* Command::Command throws std::logic_error on an empty text
Command_throws_never(text) == FALSE

Command_throws(text) == Len(text) = 0

Command(text) == [text_ |-> text]

\* the comparator handed to std::sort
sort_comp(c1, c2) == VecLess(c1.text_, c2.text_)

RECURSIVE insert_sorted(_, _)
insert_sorted(c, cmds) ==
    IF cmds = <<>> THEN <<c>>
    ELSE IF sort_comp(c, cmds[1]) THEN <<c>> \o cmds
    ELSE <<cmds[1]>> \o insert_sorted(c, Tail(cmds))

\* std::sort(commands_.begin(), commands_.end(), comp); elements that compare
\* equal have equal text_ and are indistinguishable, so the result is unique
RECURSIVE std_sort(_)
std_sort(cmds) ==
    IF cmds = <<>> THEN <<>>
    ELSE insert_sorted(cmds[1], std_sort(Tail(cmds)))

\* CommandsParser::sort_ : the value of commands_ after the call
sort_never(cmds, is_sorted) == cmds

sort_(cmds, is_sorted) == IF ~is_sorted THEN std_sort(cmds) ELSE cmds

\* comparator of std::lower_bound: comp(cmd, key)
lower_comp_short_false(cmd, key, token_num) ==
    IF token_num < Len(cmd.text_)
    THEN StrLess(cmd.text_[token_num + 1], key)
    ELSE FALSE

lower_comp(cmd, key, token_num) ==
    IF token_num < Len(cmd.text_)
    THEN StrLess(cmd.text_[token_num + 1], key)
    ELSE TRUE

\* comparator of std::upper_bound: comp(key, cmd)
upper_comp_leq(key, cmd, token_num) ==
    IF token_num < Len(cmd.text_)
    THEN ~StrLess(cmd.text_[token_num + 1], key)
    ELSE FALSE

upper_comp(key, cmd, token_num) ==
    IF token_num < Len(cmd.text_)
    THEN StrLess(key, cmd.text_[token_num + 1])
    ELSE FALSE

\* std::lower_bound: binary search for the first element with ~comp(elem, key)
RECURSIVE lower_bound(_, _, _, _, _)
lower_bound(cmds, first, len, key, token_num) ==
    IF len = 0 THEN first
    ELSE LET half == len \div 2
             middle == first + half
         IN IF lower_comp(cmds[middle], key, token_num)
            THEN lower_bound(cmds, middle + 1, len - half - 1, key, token_num)
            ELSE lower_bound(cmds, first, half, key, token_num)

\* std::upper_bound: binary search for the first element with comp(key, elem)
RECURSIVE upper_bound(_, _, _, _, _)
upper_bound(cmds, first, len, key, token_num) ==
    IF len = 0 THEN first
    ELSE LET half == len \div 2
             middle == first + half
         IN IF upper_comp(key, cmds[middle], token_num)
            THEN upper_bound(cmds, first, half, key, token_num)
            ELSE upper_bound(cmds, middle + 1, len - half - 1, key, token_num)

\* the final test of recognize_command on the window [it_begin, it_end)
final_any(it_begin, it_end) ==
    IF it_end - it_begin >= 1 THEN it_begin ELSE nullptr

final_(it_begin, it_end) ==
    IF it_end - it_begin = 1 THEN it_begin ELSE nullptr

\* the loop of recognize_command over the sorted commands; windows records
\* <<it_begin, it_end>> at the end of every iteration that was entered
RECURSIVE recognize_loop(_, _, _, _, _, _)
recognize_loop(cmds, command_tokens, token_num, it_begin, it_end, windows) ==
    IF token_num = Len(command_tokens)
    THEN [ret |-> final_(it_begin, it_end), windows |-> windows]
    ELSE LET key == command_tokens[token_num + 1]
             b == lower_bound(cmds, it_begin, it_end - it_begin, key, token_num)
         IN IF b = it_end
            THEN [ret |-> nullptr, windows |-> Append(windows, <<b, it_end>>)]
            ELSE LET e == upper_bound(cmds, b, it_end - b, key, token_num)
                 IN IF b = e
                    THEN [ret |-> nullptr, windows |-> Append(windows, <<b, e>>)]
                    ELSE recognize_loop(cmds, command_tokens, token_num + 1,
                                        b, e, Append(windows, <<b, e>>))

\* recognize_command on an already sorted commands_
recognize(cmds, command_tokens) ==
    recognize_loop(cmds, command_tokens, 0, 1, Len(cmds) + 1, <<>>)

\* main: a null result is reported as "no such command", anything else runs
Outcome(cmd) == IF cmd = nullptr THEN "NoMatch" ELSE "Resolved"

\* ------------------------------------------------------------------ state
VARIABLES
    commands_,           \* CommandsParser::commands_
    commands_is_sorted,  \* CommandsParser::commands_is_sorted
    call,                \* the last call made on the parser and what it returned
    registered,          \* history: bag of the commands registered so far
    searched             \* history: bag of the commands the last recognition searched

vars == <<commands_, commands_is_sorted, call, registered, searched>>

\* found_new: the call returned a command that an earlier recognition had not seen
NoCall == [op |-> "none", text |-> <<>>, command_tokens |-> <<>>,
           threw |-> FALSE, ret |-> nullptr, windows |-> <<>>,
           found_new |-> FALSE]

Init ==
    /\ commands_ = <<>>
    /\ commands_is_sorted = FALSE
    /\ call = NoCall
    /\ registered = EmptyBag
    /\ searched = EmptyBag

\* CommandsParser::register_command(command_id, text, help, callback)
register_command ==
    \E text \in Texts :
        LET tokens == split(text) IN
        IF Command_throws(tokens)
        THEN /\ call' = [NoCall EXCEPT !.op = "register_command",
                                       !.text = text, !.threw = TRUE]
             /\ UNCHANGED <<commands_, commands_is_sorted, registered, searched>>
        ELSE /\ Len(commands_) < MaxCmds
             /\ commands_' = Append(commands_, Command(tokens))
             /\ commands_is_sorted' = FALSE
             /\ registered' = registered (+) SetToBag({Command(tokens)})
             /\ call' = [NoCall EXCEPT !.op = "register_command", !.text = text]
             /\ UNCHANGED searched

\* CommandsParser::recognize_command(command_tokens)
recognize_command ==
    \E command_tokens \in TokenSeqs :
        LET sorted == sort_(commands_, commands_is_sorted)
            r == recognize(sorted, command_tokens)
        IN /\ commands_' = sorted
           /\ commands_is_sorted' = TRUE
           /\ call' = [NoCall EXCEPT !.op = "recognize_command",
                                     !.command_tokens = command_tokens,
                                     !.ret = r.ret, !.windows = r.windows,
                                     !.found_new =
                                         /\ searched # EmptyBag
                                         /\ r.ret # nullptr
                                         /\ ~BagIn(sorted[r.ret], searched)]
           /\ searched' = registered
           /\ UNCHANGED registered

Next == register_command \/ recognize_command

Spec == Init /\ [][Next]_vars

\* ----------------------------------------------------- claim vocabulary
Recognized == call.op = "recognize_command"

Registered == call.op = "register_command"

Idx == 1..Len(commands_)

IsPrefix(p, t) == Len(p) <= Len(t) /\ SubSeq(t, 1, Len(p)) = p

\* the definitions that have the token sequence p as a prefix of their own
Extending(p) == {i \in Idx : IsPrefix(p, commands_[i].text_)}

\* the definitions strictly longer than p that have p as a prefix
StrictlyExtending(p) == {i \in Extending(p) : Len(commands_[i].text_) > Len(p)}

Distinct == \A i, j \in Idx : i # j => commands_[i].text_ # commands_[j].text_

\* the positions inside the k-th recorded window
WindowSet(k) == {i \in Idx : call.windows[k][1] <= i /\ i < call.windows[k][2]}

\* lexicographic order stated position-wise: equal up to k-1, then either the
\* left side has ended or it is smaller at position k
StrBefore(s, t) ==
    \E k \in 1..Len(t) :
        /\ Len(s) >= k - 1
        /\ \A j \in 1..(k - 1) : s[j] = t[j]
        /\ (Len(s) = k - 1 \/ s[k] < t[k])

TokensBefore(u, v) ==
    \E k \in 1..Len(v) :
        /\ Len(u) >= k - 1
        /\ \A j \in 1..(k - 1) : u[j] = v[j]
        /\ (Len(u) = k - 1 \/ StrBefore(u[k], v[k]))

SortedByTokens ==
    \A i, j \in Idx : i < j => ~TokensBefore(commands_[j].text_, commands_[i].text_)

HoldsAllRegistered ==
    \A c \in BagToSet(registered) \cup {commands_[i] : i \in Idx} :
        CopiesIn(c, registered) = Cardinality({i \in Idx : commands_[i] = c})

\* ------------------------------------------------------------------ claims

\* C1: with pairwise-distinct token sequences (a definition may be a strict
\* prefix of another), recognizing exactly the tokens of a registered
\* definition returns that definition and not null.
C1_ExactMatchResolved ==
    (Recognized /\ Distinct
        /\ \E i \in Idx : commands_[i].text_ = call.command_tokens)
    => (call.ret # nullptr /\ commands_[call.ret].text_ = call.command_tokens)

C3_StrictPrefixIsNoMatch ==
    (Recognized /\ call.command_tokens # <<>>
        /\ Cardinality(StrictlyExtending(call.command_tokens)) = 1
        /\ Extending(call.command_tokens) = StrictlyExtending(call.command_tokens))
    => call.ret = nullptr

\* C4: when no definition has the input tokens as a prefix the result is
\* null, and the loop stops in the first iteration that leaves the window
\* empty: every earlier window is non-empty and no later token is examined.
C4_NoMatchStopsEarly ==
    (Recognized /\ Extending(call.command_tokens) = {})
    => /\ call.ret = nullptr
       /\ call.command_tokens # <<>> =>
            /\ Len(call.windows) >= 1
            /\ Len(call.windows) <= Len(call.command_tokens)
            /\ WindowSet(Len(call.windows)) = {}
            /\ Extending(SubSeq(call.command_tokens, 1, Len(call.windows))) = {}
            /\ \A k \in 1..(Len(call.windows) - 1) :
                 /\ WindowSet(k) # {}
                 /\ Extending(SubSeq(call.command_tokens, 1, k)) # {}

C4_Witness ==
    /\ Recognized
    /\ Extending(call.command_tokens) = {}
    /\ call.ret = nullptr
    /\ Len(call.windows) = 2
    /\ Len(call.command_tokens) = 3
    /\ \E i \in Idx : commands_[i].text_ = SubSeq(call.command_tokens, 1, 1)

\* C5: recognizing the empty token sequence gives null for every registry.
C5_EmptyInputIsNoMatch ==
    (Recognized /\ call.command_tokens = <<>>) => call.ret = nullptr

\* C6: prefix law: when tokens T are resolved to a command, every strict
\* prefix of T (the empty one included) gives null on the same registry.
C6_PrefixLaw ==
    (Recognized /\ call.ret # nullptr)
    => \A k \in 0..(Len(call.command_tokens) - 1) :
         recognize(commands_, SubSeq(call.command_tokens, 1, k)).ret = nullptr

\* C7: a token sequence that is already registered is refused, so no two
\* definitions of the registry ever have identical token sequences.
C7_NoDuplicateTokens == Distinct

\* C8: registering a text that splits into zero tokens throws and leaves
\* commands_ and commands_is_sorted as they were, and every definition of
\* the registry has at least one token.
C8_EmptyTextRejected ==
    [][ /\ (Registered' /\ split(call'.text) = <<>>) =>
              /\ call'.threw
              /\ commands_' = commands_
              /\ commands_is_sorted' = commands_is_sorted
        /\ (Registered' /\ split(call'.text) # <<>>) => ~call'.threw
        /\ \A i \in 1..Len(commands_') : Len(commands_'[i].text_) >= 1
      ]_vars

C8_Witness ==
    /\ Registered
    /\ call.threw
    /\ call.text # <<>>
    /\ commands_is_sorted
    /\ Len(commands_) >= 2

\* C9: no recognition searches a stale ordering: while commands_is_sorted is
\* true commands_ is sorted by token sequence (a strict prefix before its
\* extensions); commands_ always holds every definition registered so far;
\* a successful registration leaves the flag false and a recognition leaves
\* it true; so the list a recognition has searched is sorted and complete,
\* and a definition that alone matches the input is returned whenever it was
\* registered.
C9_NoStaleOrdering ==
    /\ HoldsAllRegistered
    /\ commands_is_sorted => SortedByTokens
    /\ (Registered /\ ~call.threw) => ~commands_is_sorted
    /\ Recognized =>
         /\ commands_is_sorted
         /\ SortedByTokens
         /\ searched = registered
         /\ \A i \in Idx :
              (Extending(call.command_tokens) = {i}
                  /\ commands_[i].text_ = call.command_tokens)
              => call.ret = i

C9_Witness ==
    /\ Recognized
    /\ call.found_new
    /\ Len(commands_) >= 3
    /\ call.ret < Len(commands_)

\* C10: after the k-th token has been consumed the window holds exactly the
\* definitions with at least k tokens whose first k tokens are the first k
\* input tokens, and each window is contained in the one before it.
C10_WindowIsExact ==
    Recognized =>
        \A k \in 1..Len(call.windows) :
            /\ WindowSet(k) =
                 {i \in Idx : /\ Len(commands_[i].text_) >= k
                              /\ SubSeq(commands_[i].text_, 1, k)
                                   = SubSeq(call.command_tokens, 1, k)}
            /\ k > 1 => WindowSet(k) \subseteq WindowSet(k - 1)
            /\ k > 1 => Cardinality(WindowSet(k)) <= Cardinality(WindowSet(k - 1))

C10_Witness ==
    /\ Recognized
    /\ Len(call.windows) >= 2
    /\ WindowSet(2) # {}
    /\ \E i \in WindowSet(1) : Len(commands_[i].text_) = 1
    /\ Cardinality(WindowSet(2)) < Cardinality(WindowSet(1))

====
